---- MODULE Spec2Model ----
(***************************************************************************)
(* css-select, src/compile.ts: compilation of a parsed selector (a list of *)
(* groups, each a sequence of nodes) into a predicate over the elements of *)
(* a tree, and the evaluation of the compiled predicate.                   *)
(*                                                                         *)
(* A selector node is a record [type, name, data]; data is the nested      *)
(* group list of :not / :has / :matches and <<>> for every other node.     *)
(* A compiled predicate (a JavaScript closure) is a record whose field k   *)
(* names the closure and whose other fields are its captured variables.    *)
(* The two boolbase sentinels are compared by identity in the source; a    *)
(* record with k = "trueFunc" or "falseFunc" is the sentinel itself.       *)
(***************************************************************************)
EXTENDS Integers, Sequences, FiniteSets, TLC

VARIABLES phase, input, out, slots, lastElem, lastRes, calledNext, preds, objFlag

vars == <<phase, input, out, slots, lastElem, lastRes, calledNext, preds, objFlag>>

-----------------------------------------------------------------------------
(* Selector nodes (css-what's Selector type)                               *)

Node(t, n, d) == [type |-> t, name |-> n, data |-> d]

Tag(n) == Node("tag", n, <<>>)

Universal == Node("universal", "", <<>>)

Trav(t) == Node(t, "", <<>>)

Pseudo(n, d) == Node("pseudo", n, d)

DESCENDANT_TOKEN == Node("descendant", "", <<>>)

FLEXIBLE_DESCENDANT_TOKEN == Node("_flexibleDescendant", "", <<>>)

SCOPE_TOKEN == Node("pseudo", "scope", <<>>)

\* Array.isArray(t.data): only the recursive pseudo-classes own a group list
\* (SCOPE_TOKEN has data: null).
DataIsArray(t) == t.type = "pseudo" /\ t.name \in {"not", "has", "matches"}

-----------------------------------------------------------------------------
(* The tree and its adapter.  Node 0 stands for "no node" (null) and, in a *)
(* :has slot, for PLACEHOLDER_ELEMENT.                                     *)
(*                                                                         *)
(*   1 body                                                                *)
(*   +- 2 div                                                              *)
(*   |  +- 7 (text)                                                        *)
(*   |  +- 4 span                                                          *)
(*   +- 3 div                                                              *)
(*      +- 5 div                                                           *)
(*         +- 6 span                                                       *)

Elems == {1, 2, 3, 4, 5, 6, 7}

GetParent(e) == CASE e = 1 -> 0
                  [] e \in {2, 3} -> 1
                  [] e \in {4, 7} -> 2
                  [] e = 5 -> 3
                  [] e = 6 -> 5
                  [] OTHER -> 0

GetChildren(e) == CASE e = 1 -> <<2, 3>>
                    [] e = 2 -> <<7, 4>>
                    [] e = 3 -> <<5>>
                    [] e = 5 -> <<6>>
                    [] OTHER -> <<>>

GetSiblings(e) == IF GetParent(e) = 0 THEN <<e>> ELSE GetChildren(GetParent(e))

GetName(e) == CASE e = 1 -> "body"
                [] e \in {2, 3, 5} -> "div"
                [] e \in {4, 6} -> "span"
                [] OTHER -> ""

IsTag(e) == e \in {1, 2, 3, 4, 5, 6}

-----------------------------------------------------------------------------
(* procedure.ts and sort.ts                                                *)

HasProcedure(t) ==
    t.type \in {"universal", "tag", "attribute", "pseudo",
                "descendant", "child", "parent", "sibling", "adjacent"}

Procedure(t) == CASE t.type = "universal" -> 50
                  [] t.type = "tag" -> 30
                  [] t.type = "attribute" -> 1
                  [] t.type = "pseudo" -> 0
                  [] OTHER -> -1

\* procedure[t.type] < 0; a type without an entry gives undefined < 0, false
IsTraversal(t) == HasProcedure(t) /\ Procedure(t) < 0

ContainsTraversal(t) == \E i \in 1..Len(t) : IsTraversal(t[i])

Swap(arr, i, j) == [arr EXCEPT ![i] = arr[j], ![j] = arr[i]]

RECURSIVE Bubble(_, _)
Bubble(arr, j) ==
    IF j >= 1 /\ HasProcedure(arr[j + 1]) /\ HasProcedure(arr[j])
              /\ Procedure(arr[j + 1]) < Procedure(arr[j])
    THEN Bubble(Swap(arr, j, j + 1), j - 1)
    ELSE arr

RECURSIVE SortFrom(_, _)
SortFrom(arr, i) ==
    IF i > Len(arr) THEN arr
    ELSE SortFrom(IF IsTraversal(arr[i]) THEN arr ELSE Bubble(arr, i - 1), i + 1)

\* insertion sort by procedure; a traversal is never moved and never passed
SortRules(arr) == SortFrom(arr, 2)

-----------------------------------------------------------------------------
(* Contexts.  kind "undef": undefined; "elem": one element, not an array;  *)
(* "array": an array of elements; "nested": an array holding one array of  *)
(* elements; "slot": the one-element array a :has allocates, whose content *)
(* is slots[slot] (0 = PLACEHOLDER_ELEMENT).                               *)

Ctx(k, els, s) == [kind |-> k, els |-> els, slot |-> s]

NoCtx == Ctx("undef", <<>>, 0)

CtxIsArray(c) == c.kind \in {"array", "nested", "slot"}

CtxTruthy(c) == c.kind # "undef"

\* [context]
CtxWrap(c) == IF c.kind = "elem" THEN Ctx("array", c.els, 0)
              ELSE IF c.kind = "array" THEN Ctx("nested", c.els, 0)
              ELSE c

-----------------------------------------------------------------------------
(* absolutize                                                              *)

RECURSIVE IncludesScopePseudo(_)
IncludesScopePseudo(t) ==
    /\ t.type = "pseudo"
    /\ \/ t.name = "scope"
       \/ /\ DataIsArray(t)
          /\ \E i \in 1..Len(t.data) :
                \E j \in 1..Len(t.data[i]) : IncludesScopePseudo(t.data[i][j])

\* !!context && !!context.length && context.every(e => e === PLACEHOLDER || !!getParent(e))
HasContext(context) ==
    CASE context.kind = "array" ->
            Len(context.els) > 0 /\ \A i \in 1..Len(context.els) : GetParent(context.els[i]) # 0
      [] context.kind = "slot" -> TRUE
      [] OTHER -> FALSE

\* absolutize testing for a context before it tests for a leading traversal
AbsolutizeGroupContextFirst(t, hasContext) ==
    IF hasContext /\ ~(\E i \in 1..Len(t) : IncludesScopePseudo(t[i]))
    THEN <<SCOPE_TOKEN, DESCENDANT_TOKEN>> \o t
    ELSE IF Len(t) > 0 /\ IsTraversal(t[1]) /\ t[1].type # "descendant"
    THEN <<SCOPE_TOKEN>> \o t
    ELSE t

AbsolutizeGroup(t, hasContext) ==
    IF Len(t) > 0 /\ IsTraversal(t[1]) /\ t[1].type # "descendant"
    THEN <<SCOPE_TOKEN>> \o t
    ELSE IF hasContext /\ ~(\E i \in 1..Len(t) : IncludesScopePseudo(t[i]))
    THEN <<SCOPE_TOKEN, DESCENDANT_TOKEN>> \o t
    ELSE t

\* token holds the non-empty groups only (compileToken filters first); an
\* empty group of the caller's list is carried along untouched
Absolutize(token, context) ==
    [i \in 1..Len(token) |->
        IF Len(token[i]) = 0 THEN token[i]
        ELSE AbsolutizeGroup(token[i], HasContext(context))]

-----------------------------------------------------------------------------
(* Compiled predicates                                                     *)

TrueFunc == [k |-> "trueFunc"]

FalseFunc == [k |-> "falseFunc"]

\* options.rootFunc absent
NoRoot == [k |-> "none"]

\* identities of function objects that outlive one compilation: the two
\* sentinels, and handle h >= 1 for the closure first returned by call h;
\* 0 is a closure that only the running compilation has seen
TRUEF == -1

FALSEF == -2

ObjOf(q) == CASE q.k = "trueFunc" -> TRUEF
              [] q.k = "falseFunc" -> FALSEF
              [] q.k = "ext" -> q.h
              [] OTHER -> 0

\* wrap(next, options): function base(elem) { return adapter.isTag(elem) && next(elem) }
Wrap(next) == [k |-> "base", next |-> next]

\* reduceRules keeping only its left operand where it should combine
ReduceRulesFirst(a, b) ==
    IF b.k = "falseFunc" \/ a.k = "trueFunc" THEN a
    ELSE IF a.k = "falseFunc" \/ b.k = "trueFunc" THEN b
    ELSE a

\* reduceRules(a, b)
ReduceRules(a, b) ==
    IF b.k = "falseFunc" \/ a.k = "trueFunc" THEN a
    ELSE IF a.k = "falseFunc" \/ b.k = "trueFunc" THEN b
    ELSE [k |-> "combine", a |-> a, b |-> b]

RECURSIVE ReduceFrom(_, _, _)
ReduceFrom(qs, i, acc) ==
    IF i > Len(qs) THEN acc ELSE ReduceFrom(qs, i + 1, ReduceRules(acc, qs[i]))

-----------------------------------------------------------------------------
(* Compilation.  A compilation threads st through every step in the order  *)
(* the source executes them:                                               *)
(*   err  an exception was thrown (the rest of the compilation is skipped) *)
(*   ns   number of :has slots allocated so far                            *)
(*   wr   the writes of shouldTestNextSiblings, <<object, value>>, in order*)
(*   nl   one record per call of filters.not                               *)

St0 == [err |-> FALSE, ns |-> 0, wr |-> <<>>, nl |-> <<>>]

Opts(strict, root, context) == [strict |-> strict, root |-> root, context |-> context]

\* general.ts / pseudos.ts: the leaf builders reached through Rules[rule.type]
LeafRule(next, rule, context) ==
    CASE rule.type = "tag" -> [k |-> "tag", name |-> rule.name, next |-> next]
      [] rule.type = "universal" -> next
      [] rule.type = "pseudo" /\ rule.name = "scope" ->
            IF context.kind = "undef" \/ (context.kind = "array" /\ Len(context.els) = 0)
            THEN [k |-> "root", next |-> next]
            ELSE [k |-> "scope", context |-> context, next |-> next]
      [] OTHER -> [k |-> rule.type, next |-> next]

\* the substitution made without looking at isArrayContext
AdjustGroupAnyContext(rules, isArrayContext) ==
    IF Len(rules) >= 2
       /\ rules[1].type = "pseudo" /\ rules[1].name = "scope"
       /\ rules[2].type = "descendant"
    THEN [rules EXCEPT ![2] = FLEXIBLE_DESCENDANT_TOKEN]
    ELSE rules

\* lines 106-119 of compileToken: the group as compileRules receives it
AdjustGroup(rules, isArrayContext) ==
    IF Len(rules) >= 2
       /\ rules[1].type = "pseudo" /\ rules[1].name = "scope"
       /\ isArrayContext /\ rules[2].type = "descendant"
    THEN [rules EXCEPT ![2] = FLEXIBLE_DESCENDANT_TOKEN]
    ELSE rules

\* lines 106-119 of compileToken: does this group set shouldTestNextSiblings
GroupTestsSiblings(rules, isArrayContext) ==
    /\ Len(rules) >= 2
    /\ rules[1].type = "pseudo" /\ rules[1].name = "scope"
    /\ ~(isArrayContext /\ rules[2].type = "descendant")
    /\ rules[2].type \in {"adjacent", "sibling"}

\* the options :not and :has derive: { xmlMode, strict, adapter }
DerivedOpts(options) == Opts(options.strict, NoRoot, NoCtx)

\* :matches dropping the strict flag from the options it derives
MatchesOptsLax(options, next) == Opts(FALSE, next, NoCtx)

\* the options :matches derives: { xmlMode, strict, rootFunc: next, adapter }
MatchesOpts(options, next) == Opts(options.strict, next, NoCtx)

\* the test of filters.not that throws in strict mode
NotIsComplex(token) ==
    Len(token) > 1 \/ \E i \in 1..Len(token) : ContainsTraversal(token[i])

\* what filters.not returns for the compiled argument func
NotResult(func, next) ==
    IF func.k = "falseFunc" THEN next
    ELSE IF func.k = "trueFunc" THEN FalseFunc
    ELSE [k |-> "not", func |-> func, next |-> next]

\* what filters.has returns for the compiled argument func; slot = 0 when no
\* context was allocated
HasResult(func, next, slot) ==
    IF func.k = "falseFunc" THEN FalseFunc
    ELSE IF func.k = "trueFunc" THEN [k |-> "hasChild", next |-> next]
    ELSE [k |-> "has", func |-> Wrap(func), next |-> next, slot |-> slot]

RECURSIVE CompileToken(_, _, _, _)
RECURSIVE CompileRulesFrom(_, _, _, _, _, _)
RECURSIVE MapGroups(_, _, _, _, _, _, _)
RECURSIVE RulesDispatch(_, _, _, _, _)

\* what a filter hands back to compileRules: the predicate, the nested group
\* list as the nested compilation left it, and the effects so far
Nested(q, c) == [q |-> q, tok |-> c.tok, st |-> c.st]

\* st after a call of filters.not on token that throws or goes on
NotEntered(st, token, throws) ==
    [st EXCEPT !.nl = Append(@, [token |-> token, threw |-> throws]),
               !.err = throws]

NotCompiled(c, next) == Nested(NotResult(c.q, next), c)

FiltersNot(next, token, options, context, st) ==
    IF DerivedOpts(options).strict /\ NotIsComplex(token)
    THEN [q |-> FalseFunc, tok |-> token, st |-> NotEntered(st, token, TRUE)]
    ELSE NotCompiled(CompileToken(token, DerivedOpts(options), context,
                                  NotEntered(st, token, FALSE)), next)

\* const context = token.some(containsTraversal) ? [PLACEHOLDER_ELEMENT] : undefined,
\* as the number of the new slot, or 0
HasSlot(token, st) ==
    IF \E i \in 1..Len(token) : ContainsTraversal(token[i]) THEN st.ns + 1 ELSE 0

HasCtx(slot) == IF slot = 0 THEN NoCtx ELSE Ctx("slot", <<>>, slot)

HasEntered(st, slot) == IF slot = 0 THEN st ELSE [st EXCEPT !.ns = slot]

HasCompiled(c, next, slot) == Nested(HasResult(c.q, next, slot), c)

FiltersHas(next, token, options, st) ==
    HasCompiled(CompileToken(token, DerivedOpts(options), HasCtx(HasSlot(token, st)),
                             HasEntered(st, HasSlot(token, st))),
                next, HasSlot(token, st))

MatchesCompiled(c) == Nested(c.q, c)

FiltersMatches(next, token, options, context, st) ==
    MatchesCompiled(CompileToken(token, MatchesOpts(options, next), context, st))

\* the rule with the nested group list the filter compiled
RuleCompiled(r, rule) == [q |-> r.q, rule |-> [rule EXCEPT !.data = r.tok], st |-> r.st]

\* Rules[rule.type](previous, rule, options, context)
RulesDispatch(next, rule, options, context, st) ==
    IF rule.type = "pseudo" /\ rule.name \in {"not", "has", "matches"}
    THEN RuleCompiled(
            CASE rule.name = "not" -> FiltersNot(next, rule.data, options, context, st)
              [] rule.name = "has" -> FiltersHas(next, rule.data, options, st)
              [] OTHER -> FiltersMatches(next, rule.data, options, context, st),
            rule)
    ELSE [q |-> LeafRule(next, rule, context), rule |-> rule, st |-> st]

\* the reduce of compileRules goes on behind rule i, compiled to r
RulesNext(r, rules, i, options, context) ==
    CompileRulesFrom([rules EXCEPT ![i] = r.rule], i + 1, r.q, options, context, r.st)

\* the reduce of compileRules, from rule i on, with accumulator previous
CompileRulesFrom(rules, i, previous, options, context, st) ==
    IF i > Len(rules) \/ st.err
    THEN [q |-> previous, rules |-> rules, st |-> st]
    ELSE IF previous.k = "falseFunc"
    THEN CompileRulesFrom(rules, i + 1, FalseFunc, options, context, st)
    ELSE RulesNext(RulesDispatch(previous, rules[i], options, context, st),
                   rules, i, options, context)

\* (options && options.rootFunc) || trueFunc
RootOf(options) == IF options.root.k = "none" THEN TrueFunc ELSE options.root

CompileRules(rules, options, context, st) ==
    CompileRulesFrom(rules, 1, RootOf(options), options, context, st)

\* the map of compileToken goes on behind group i, compiled to c
GroupsNext(c, token, i, qs, options, context, isArrayContext) ==
    MapGroups([token EXCEPT ![i] = c.rules], i + 1, Append(qs, c.q),
              options, context, isArrayContext, c.st)

\* the map of compileToken over the non-empty groups, from group i on
MapGroups(token, i, qs, options, context, isArrayContext, st) ==
    IF i > Len(token) \/ st.err
    THEN [qs |-> qs, tok |-> token, st |-> st]
    ELSE IF Len(token[i]) = 0
    THEN MapGroups(token, i + 1, qs, options, context, isArrayContext, st)
    ELSE GroupsNext(CompileRules(AdjustGroup(token[i], isArrayContext), options, context, st),
                    token, i, qs, options, context, isArrayContext)

\* context = (options && options.context) || context;
\* if (context && !isArrayContext) context = [context]
ContextOf(options, context) ==
    IF CtxTruthy(options.context)
    THEN (IF CtxIsArray(context) THEN options.context ELSE CtxWrap(options.context))
    ELSE (IF CtxIsArray(context) THEN context ELSE CtxWrap(context))

\* token.forEach(sortRules)
SortAll(token) == [i \in 1..Len(token) |-> SortRules(token[i])]

\* let shouldTestNextSiblings, as the map leaves it
TestsSiblings(abs, isArrayContext) ==
    \E i \in 1..Len(abs) : GroupTestsSiblings(abs[i], isArrayContext)

\* query.shouldTestNextSiblings = shouldTestNextSiblings; return query
Flagged(query, m, flag, sorted, abs, ctx, isArrayContext) ==
    [q |-> query, tok |-> m.tok,
     st |-> IF m.st.err THEN m.st
            ELSE [m.st EXCEPT !.wr = Append(@, <<ObjOf(query), flag>>)],
     sorted |-> sorted, abs |-> abs, ctx |-> ctx, flag |-> flag,
     isArrayContext |-> isArrayContext]

\* .reduce(reduceRules, falseFunc) over the mapped groups m
Reduced(m, sorted, abs, ctx, isArrayContext) ==
    Flagged(ReduceFrom(m.qs, 1, FalseFunc), m, TestsSiblings(abs, isArrayContext),
            sorted, abs, ctx, isArrayContext)

\* compileToken behind absolutize
Absolutized(sorted, abs, options, ctx, isArrayContext, st) ==
    Reduced(MapGroups(abs, 1, <<>>, options, ctx, isArrayContext, st),
            sorted, abs, ctx, isArrayContext)

\* compileToken behind the sorting pass and the choice of the context
Sorted(sorted, options, ctx, isArrayContext, st) ==
    Absolutized(sorted, Absolutize(sorted, ctx), options, ctx, isArrayContext, st)

CompileToken(token, options, context, st) ==
    Sorted(SortAll(token), options, ContextOf(options, context), CtxIsArray(context), st)

-----------------------------------------------------------------------------
(* Evaluation of a compiled predicate p on element e.  s is the content of *)
(* the :has slots before the call; the result is [r, s]: the value the     *)
(* closure returns and the slots after the call.  Conjunctions and loops   *)
(* are evaluated in the source's order, with its short-circuits.           *)

Res(r, s) == [r |-> r, s |-> s]

RECURSIVE Eval(_, _, _)
RECURSIVE EvalAncestors(_, _, _)
RECURSIVE EvalSiblings(_, _, _, _, _)
RECURSIVE ExistsOne(_, _, _, _)

\* the ancestors loop behind the call r of next on e
AncestorsNext(r, next, e) ==
    IF r.r THEN r ELSE EvalAncestors(next, GetParent(e), r.s)

\* while (!found && (elem = adapter.getParent(elem))) found = next(elem), entered at e
EvalAncestors(next, e, s) ==
    IF e = 0 THEN Res(FALSE, s) ELSE AncestorsNext(Eval(next, e, s), next, e)

\* the siblings loop behind the call r of next on siblings[i]
SiblingsNext(r, next, sibs, i, e) ==
    IF r.r THEN r ELSE EvalSiblings(next, sibs, i + 1, e, r.s)

\* the loop of general.ts sibling over siblings[i..]
EvalSiblings(next, sibs, i, e, s) ==
    IF i > Len(sibs) THEN Res(FALSE, s)
    ELSE IF ~IsTag(sibs[i]) THEN EvalSiblings(next, sibs, i + 1, e, s)
    ELSE IF sibs[i] = e THEN Res(FALSE, s)
    ELSE SiblingsNext(Eval(next, sibs[i], s), next, sibs, i, e)

\* the last tag among the siblings before e (0: none), as adjacent finds it
LastTagBefore(sibs, e) ==
    LET idx == {i \in 1..Len(sibs) : sibs[i] = e}
        stop == IF idx = {} THEN Len(sibs) + 1 ELSE CHOOSE i \in idx : \A j \in idx : i <= j
        tags == {i \in 1..(stop - 1) : IsTag(sibs[i])}
    IN  IF tags = {} THEN 0 ELSE sibs[CHOOSE i \in tags : \A j \in tags : j <= i]

\* existsOne behind the search d below elems[i]
ExistsBelow(d, test, elems, i) ==
    IF d.r THEN d ELSE ExistsOne(test, elems, i + 1, d.s)

\* existsOne behind the call r of test on elems[i]
ExistsNext(r, test, elems, i) ==
    IF r.r THEN r
    ELSE ExistsBelow(ExistsOne(test, GetChildren(elems[i]), 1, r.s), test, elems, i)

\* adapter.existsOne(test, elems), from elems[i] on
ExistsOne(test, elems, i, s) ==
    IF i > Len(elems) THEN Res(FALSE, s)
    ELSE IF ~IsTag(elems[i]) THEN ExistsOne(test, elems, i + 1, s)
    ELSE ExistsNext(Eval(test, elems[i], s), test, elems, i)

\* pseudos.ts filters.scope: equals(context[0], elem) for a one-element
\* context, context.indexOf(elem) >= 0 otherwise.  A context that is no array
\* has no indexOf (the call throws): no element is accepted.
ScopeHolds(context, e, s) ==
    CASE context.kind = "slot" -> s[context.slot] = e
      [] context.kind = "array" -> \E i \in 1..Len(context.els) : context.els[i] = e
      [] OTHER -> FALSE

\* does base(elem) call next: adapter.isTag(elem) && next(elem)
BaseCallsNext(e) == IsTag(e)

\* base without its guard: return next(elem)
EvalBaseUnguarded(p, e, s) == Eval(p.next, e, s)

\* function base(elem)
EvalBase(p, e, s) ==
    IF BaseCallsNext(e) THEN Eval(p.next, e, s) ELSE Res(FALSE, s)

\* a(elem) || b(elem), a(elem) being ra
OrElse(ra, b, e) == IF ra.r THEN ra ELSE Eval(b, e, ra.s)

\* function combine(elem) { return a(elem) || b(elem) }
EvalCombine(p, e, s) == OrElse(Eval(p.a, e, s), p.b, e)

\* !func(elem) && next(elem), func(elem) being rf
UnlessThen(rf, next, e) == IF rf.r THEN Res(FALSE, rf.s) ELSE Eval(next, e, rf.s)

\* function not(elem) { return !func(elem) && next(elem) }
EvalNot(p, e, s) == UnlessThen(Eval(p.func, e, s), p.next, e)

\* function hasChild(elem)
EvalHasChild(p, e, s) ==
    IF \E i \in 1..Len(GetChildren(e)) : IsTag(GetChildren(e)[i])
    THEN Eval(p.next, e, s) ELSE Res(FALSE, s)

\* context[0] = elem
SlotSet(s, slot, e) == IF slot = 0 THEN s ELSE [s EXCEPT ![slot] = e]

\* the search of has, then the write of the slot
SearchThenSet(x, slot, e) == Res(x.r, SlotSet(x.s, slot, e))

HasStaleNext(n, p, e) ==
    IF ~n.r THEN n
    ELSE SearchThenSet(ExistsOne(p.func, GetChildren(e), 1, n.s), p.slot, e)

\* has writing the slot after the search instead of before it
EvalHasStale(p, e, s) == HasStaleNext(Eval(p.next, e, s), p, e)

\* next(elem) && ((context[0] = elem), adapter.existsOne(func, adapter.getChildren(elem))),
\* next(elem) being n
HasNext(n, p, e) ==
    IF ~n.r THEN n
    ELSE ExistsOne(p.func, GetChildren(e), 1, SlotSet(n.s, p.slot, e))

\* function has(elem), both variants (slot 0: no context was allocated)
EvalHas(p, e, s) == HasNext(Eval(p.next, e, s), p, e)

Eval(p, e, s) ==
    CASE p.k = "trueFunc" -> Res(TRUE, s)
      [] p.k = "falseFunc" -> Res(FALSE, s)
      [] p.k = "base" -> EvalBase(p, e, s)
      [] p.k = "combine" -> EvalCombine(p, e, s)
      [] p.k = "not" -> EvalNot(p, e, s)
      [] p.k = "hasChild" -> EvalHasChild(p, e, s)
      [] p.k = "has" -> EvalHas(p, e, s)
      [] p.k = "ext" -> Eval(preds[p.h].fn, e, s)
      [] p.k = "tag" -> IF GetName(e) = p.name THEN Eval(p.next, e, s) ELSE Res(FALSE, s)
      [] p.k = "root" -> IF GetParent(e) = 0 THEN Eval(p.next, e, s) ELSE Res(FALSE, s)
      [] p.k = "scope" ->
            IF ScopeHolds(p.context, e, s) THEN Eval(p.next, e, s) ELSE Res(FALSE, s)
      [] p.k = "child" ->
            IF GetParent(e) # 0 THEN Eval(p.next, GetParent(e), s) ELSE Res(FALSE, s)
      [] p.k = "descendant" -> EvalAncestors(p.next, GetParent(e), s)
      [] p.k = "_flexibleDescendant" -> EvalAncestors(p.next, e, s)
      [] p.k = "sibling" -> EvalSiblings(p.next, GetSiblings(e), 1, e, s)
      [] p.k = "adjacent" ->
            LET last == LastTagBefore(GetSiblings(e), e)
            IN  IF last # 0 THEN Eval(p.next, last, s) ELSE Res(FALSE, s)

-----------------------------------------------------------------------------
(* The inputs: parsed selectors, options and contexts                      *)

DIV == Tag("div")

SPAN == Tag("span")

CHILD == Trav("child")

SIBLING == Trav("sibling")

ADJACENT == Trav("adjacent")

Leaf == {DIV, SPAN, Universal, SCOPE_TOKEN}

Travs == {CHILD, DESCENDANT_TOKEN, SIBLING, ADJACENT}

Names == {"not", "has", "matches"}

\* groups of an innermost argument
ArgGroups ==
    {<<>>, <<SPAN>>, <<Universal>>, <<SCOPE_TOKEN>>,
     <<CHILD, SPAN>>, <<SIBLING, SPAN>>,
     <<DIV, CHILD, SPAN>>, <<DIV, DESCENDANT_TOKEN, SPAN>>,
     <<SCOPE_TOKEN, DESCENDANT_TOKEN, SPAN>>}

Args1 ==
    {<<>>} \cup {<<g>> : g \in ArgGroups}
    \cup {<< <<SPAN>>, <<DIV>> >>, << <<>>, <<SPAN>> >>, << <<CHILD, SPAN>>, <<DIV>> >>}

Nested1 == {Pseudo(n, a) : n \in Names, a \in Args1}

Args2 ==
    {<< <<Pseudo(n, a)>> >> :
        n \in Names,
        a \in {<< <<Universal>> >>, << <<DIV, CHILD, SPAN>> >>}}

Nested2 == {Pseudo(n, a) : n \in {"not", "matches"}, a \in Args2}

Filters == Leaf \cup Nested1 \cup Nested2

\* filters that follow a traversal or share a compound with another filter
TailFilters ==
    {SPAN,
     Pseudo("has", << <<CHILD, SPAN>> >>),
     Pseudo("matches", << <<DIV, CHILD, SPAN>> >>),
     Pseudo("matches", << <<SPAN>>, <<DIV>> >>),
     Pseudo("not", << <<SPAN>> >>),
     Pseudo("not", << <<DIV, CHILD, SPAN>> >>)}

Groups ==
    {<<>>}
    \cup {<<f>> : f \in Filters}
    \cup {<<v, l>> : v \in Travs, l \in {SPAN, Universal}}
    \cup {<<SCOPE_TOKEN, v, SPAN>> : v \in Travs}
    \cup {<<DIV, v, f>> : v \in {CHILD, DESCENDANT_TOKEN}, f \in TailFilters}
    \cup {<<f, g>> : f \in {DIV, Pseudo("not", << <<SPAN>> >>)}, g \in TailFilters}

PairGroups ==
    {<<>>, <<SPAN>>, <<Universal>>, <<CHILD, SPAN>>,
     <<SCOPE_TOKEN, SIBLING, SPAN>>,
     <<Pseudo("has", << <<CHILD, SPAN>> >>)>>,
     <<Pseudo("not", << <<Universal>> >>)>>}

Tokens ==
    {<<>>} \cup {<<g>> : g \in Groups} \cup {<<g, h>> : g \in PairGroups, h \in PairGroups}

Elem(e) == Ctx("elem", <<e>>, 0)

Arr(els) == Ctx("array", els, 0)

\* <<the positional context argument, options.context>>
Contexts ==
    {<<NoCtx, NoCtx>>, <<Elem(2), NoCtx>>, <<Arr(<<2, 3>>), NoCtx>>,
     <<Arr(<<1>>), NoCtx>>, <<Arr(<<>>), NoCtx>>,
     <<NoCtx, Elem(2)>>, <<NoCtx, Arr(<<2, 3>>)>>, <<Arr(<<2>>), Elem(3)>>}

\* the selectors of the calls that share function objects
SharedTokens ==
    {<<>>, << <<Universal>> >>, << <<SPAN>> >>, << <<SIBLING, SPAN>> >>,
     << <<Pseudo("not", << <<Universal>> >>)>> >>,
     << <<SIBLING, Pseudo("not", << <<Universal>> >>)>> >>,
     << <<Pseudo("matches", << <<Universal>> >>)>> >>}

\* calls retained by the specification of shared function objects
MaxCalls == 3

-----------------------------------------------------------------------------
(* State                                                                   *)
(*   phase       "idle" before the first call, "compiled" after a call     *)
(*   input       the arguments of the last call                            *)
(*   out         what the last call did and returned                       *)
(*   slots       the content of each :has slot of the last predicate       *)
(*   lastElem, lastRes, calledNext   the last evaluation                   *)
(*   preds       the predicates returned so far, by handle                 *)
(*   objFlag     the shouldTestNextSiblings property of each function      *)
(*               object: "unset", "true" or "false"                        *)

NoInput == [entry |-> "", token |-> <<>>, strict |-> FALSE,
            context |-> NoCtx, optContext |-> NoCtx, root |-> 0]

NoOut == [err |-> FALSE, q |-> FalseFunc, inner |-> FalseFunc, tok |-> <<>>,
          sorted |-> <<>>, abs |-> <<>>, ctx |-> NoCtx, flag |-> FALSE,
          isArrayContext |-> FALSE, nl |-> <<>>, obj |-> 0, read |-> "unset"]

Init ==
    /\ phase = "idle"
    /\ input = NoInput
    /\ out = NoOut
    /\ slots = <<>>
    /\ lastElem = 0
    /\ lastRes = FALSE
    /\ calledNext = FALSE
    /\ preds = <<>>
    /\ objFlag = (TRUEF :> "unset") @@ (FALSEF :> "unset")

FlagVal(b) == IF b THEN "true" ELSE "false"

\* query.shouldTestNextSiblings = shouldTestNextSiblings, for every write of
\* the call in order; fresh stands for the closure the call returns when
\* that is a new one
RECURSIVE ApplyWrites(_, _, _, _)
ApplyWrites(flags, wr, i, fresh) ==
    IF i > Len(wr) THEN flags
    ELSE LET o == IF wr[i][1] = 0 THEN fresh ELSE wr[i][1]
         IN  ApplyWrites(IF o = 0 THEN flags
                         ELSE (o :> FlagVal(wr[i][2])) @@ flags,
                         wr, i + 1, fresh)

\* options.rootFunc given as an earlier returned predicate (0: not given)
RootPred(rh) ==
    IF rh = 0 THEN NoRoot
    ELSE LET o == preds[rh].obj
         IN  IF o = TRUEF THEN TrueFunc
             ELSE IF o = FALSEF THEN FalseFunc
             ELSE [k |-> "ext", h |-> o]

\* The state after a call of an entry point whose compileToken gave c.  A new
\* closure gets handle h.  entry "compile" returns wrap(next), a new function
\* object; the others return the object compileToken built.
Returned(c, h, entry, q, obj, flags, call) ==
    /\ phase' = "compiled"
    /\ input' = call
    /\ out' = [err |-> c.st.err, q |-> q, inner |-> c.q, tok |-> c.tok,
               sorted |-> c.sorted, abs |-> c.abs, ctx |-> c.ctx, flag |-> c.flag,
               isArrayContext |-> c.isArrayContext, nl |-> c.st.nl,
               obj |-> IF c.st.err THEN 0 ELSE obj,
               read |-> IF c.st.err \/ obj \notin DOMAIN flags THEN "unset" ELSE flags[obj]]
    /\ slots' = [i \in 1..c.st.ns |-> 0]
    /\ lastElem' = 0
    /\ lastRes' = FALSE
    /\ calledNext' = FALSE
    /\ preds' = IF c.st.err THEN preds
                ELSE Append(preds, [obj |-> obj, fn |-> q, expected |-> FlagVal(c.flag)])
    /\ objFlag' = IF c.st.err \/ obj \in DOMAIN flags THEN flags
                  ELSE (obj :> "unset") @@ flags

\* the object an entry point returns: the new wrapper for compile, else the
\* query, which is a sentinel, rootFunc or a new closure
ReturnedObj(c, h, entry) ==
    IF entry = "compile" \/ ObjOf(c.q) = 0 THEN h ELSE ObjOf(c.q)

\* the handle of the query for its flag writes: 0 when the query is no new
\* closure, or is not what the caller gets (compile; a throw)
FreshQuery(c, h, entry) ==
    IF entry = "compile" \/ c.st.err \/ ObjOf(c.q) # 0 THEN 0 ELSE h

Finish(c, h, entry, call) ==
    Returned(c, h, entry,
             IF entry = "compile" THEN Wrap(c.q) ELSE c.q,
             ReturnedObj(c, h, entry),
             ApplyWrites(objFlag, c.st.wr, 1, FreshQuery(c, h, entry)),
             call)

\* One call of an entry point.
Call(entry, token, strict, context, optContext, rh) ==
    Finish(CompileToken(token, Opts(strict, RootPred(rh), optContext), context, St0),
           Len(preds) + 1, entry,
           [entry |-> entry, token |-> token, strict |-> strict,
            context |-> context, optContext |-> optContext, root |-> rh])

\* compile(selector, options, context): the selector string is given by its
\* parse (css-what's parse is not part of the program)
Compile ==
    /\ phase = "idle"
    /\ \E token \in Tokens, strict \in BOOLEAN, cx \in Contexts :
          Call("compile", token, strict, cx[1], cx[2], 0)

CompileUnsafe ==
    /\ phase = "idle"
    /\ \E token \in Tokens, strict \in BOOLEAN, cx \in Contexts :
          Call("compileUnsafe", token, strict, cx[1], cx[2], 0)

CompileTokenCall ==
    /\ phase = "idle"
    /\ \E token \in Tokens, strict \in BOOLEAN, cx \in Contexts :
          Call("compileToken", token, strict, cx[1], cx[2], 0)

\* the state after the call of the returned predicate on e gave r
Evaluated(r, e) ==
    /\ lastElem' = e
    /\ lastRes' = r.r
    /\ slots' = r.s
    /\ calledNext' = (out.q.k = "base" /\ BaseCallsNext(e))

\* the caller applies the returned predicate to an element
Evaluate ==
    /\ phase = "compiled"
    /\ ~out.err
    /\ \E e \in Elems : Evaluated(Eval(out.q, e, slots), e)
    /\ UNCHANGED <<phase, input, out, preds, objFlag>>

Next == Compile \/ CompileUnsafe \/ CompileTokenCall \/ Evaluate

Spec == Init /\ [][Next]_vars

\* a program that compiles several selectors, passing earlier predicates on
\* as options.rootFunc
CompileShared ==
    /\ Len(preds) < MaxCalls
    /\ \E token \in SharedTokens, rh \in 0..Len(preds) :
          Call("compileToken", token, FALSE, NoCtx, NoCtx, rh)

NextShared == CompileShared

SpecShared == Init /\ [][NextShared]_vars

-----------------------------------------------------------------------------
(* Properties                                                              *)

Compiled == phase = "compiled" /\ ~out.err

WasEvaluated == Compiled /\ lastElem # 0

\* every slot holding PLACEHOLDER_ELEMENT, as right after compilation
Pristine(n) == [i \in 1..n |-> 0]

\* the elements a predicate accepts, its slots being fresh
MatchSet(q, n) == {e \in Elems : Eval(q, e, Pristine(n)).r}

InputOpts == Opts(input.strict, NoRoot, input.optContext)

\* C1: the predicate compile returns is true for a node only if the node is a
\* tag and the unguarded predicate (compileUnsafe of the same input) is true
\* for it; on a node that is no tag it returns false and does not call the
\* unguarded predicate.
C1_CompileGuardsIsTag ==
    (WasEvaluated /\ input.entry = "compile") =>
        /\ lastRes => (IsTag(lastElem)
                       /\ Eval(out.inner, lastElem, Pristine(Len(slots))).r)
        /\ ~IsTag(lastElem) => (~lastRes /\ ~calledNext)

\* C1 witness: the guarded predicate rejected a text node that the unguarded
\* predicate accepts, without calling it.
C1_Witness ==
    /\ WasEvaluated /\ input.entry = "compile"
    /\ ~IsTag(lastElem) /\ ~lastRes /\ ~calledNext
    /\ Eval(out.inner, lastElem, Pristine(Len(slots))).r

IsScope(t) == t.type = "pseudo" /\ t.name = "scope"

\* some group begins with :scope followed by a sibling or adjacent traversal
ScopeThenSibling(token) ==
    \E i \in 1..Len(token) :
        /\ Len(token[i]) >= 2
        /\ IsScope(token[i][1])
        /\ token[i][2].type \in {"sibling", "adjacent"}

\* C2: the predicate every entry point hands back carries
\* shouldTestNextSiblings, true exactly when a sorted and absolutized
\* top-level group begins with :scope followed by a sibling or adjacent
\* traversal, false otherwise.
C2_FlagOnEveryEntryPoint ==
    Compiled => out.read = FlagVal(ScopeThenSibling(out.abs))

NonEmpty(token) == {i \in 1..Len(token) : Len(token[i]) > 0}

Alone(g) == CompileToken(<<g>>, InputOpts, input.context, St0)

AloneSet(g) == LET c == Alone(g) IN MatchSet(c.q, c.st.ns)

Reverse(token) == [i \in 1..Len(token) |-> token[Len(token) + 1 - i]]

\* C3: without rootFunc, the predicate of a group list accepts an element iff
\* some non-empty group compiled alone accepts it; the order of the groups
\* does not matter; a list without a non-empty group gives falseFunc.
C3_GroupsAreUnion ==
    (Compiled /\ lastElem = 0 /\ input.root = 0) =>
        /\ MatchSet(out.inner, Len(slots))
              = UNION {AloneSet(input.token[i]) : i \in NonEmpty(input.token)}
        /\ LET r == CompileToken(Reverse(input.token), InputOpts, input.context, St0)
           IN  MatchSet(r.q, r.st.ns) = MatchSet(out.inner, Len(slots))
        /\ NonEmpty(input.token) = {} => out.inner.k = "falseFunc"

\* C3 witness: two groups, each accepting an element the other rejects.
C3_Witness ==
    /\ Compiled /\ lastElem = 0 /\ Len(input.token) = 2
    /\ out.inner.k = "combine"
    /\ AloneSet(input.token[1]) \ AloneSet(input.token[2]) # {}
    /\ AloneSet(input.token[2]) \ AloneSet(input.token[1]) # {}
    /\ MatchSet(out.inner, Len(slots))
          = AloneSet(input.token[1]) \cup AloneSet(input.token[2])

\* the argument of a :not is complex: more than one group, or a group that
\* holds a traversal operator
ComplexArgument(token) ==
    \/ Len(token) > 1
    \/ \E i \in 1..Len(token) : \E j \in 1..Len(token[i]) :
          token[i][j].type \in {"descendant", "child", "sibling", "adjacent"}

RECURSIVE Visited(_)
Visited(e) ==
    UNION {{GetChildren(e)[i]} \cup Visited(GetChildren(e)[i]) :
              i \in {j \in 1..Len(GetChildren(e)) : IsTag(GetChildren(e)[j])}}

HasGtSpan == << <<Pseudo("has", << <<CHILD, SPAN>> >>)>> >>

\* C5: a predicate compiled from :has(S), S holding a traversal, is true for e
\* iff the outer continuation holds for e and some tag node visited below e
\* satisfies S with :scope resolved to e, whatever was evaluated before;
\* :has(> span) is false without children, true with a span child, false
\* when the only span is a grandchild.
C5_HasScopedToElement ==
    (WasEvaluated /\ out.inner.k = "has" /\ out.inner.slot # 0) =>
        LET p == out.inner
            e == lastElem
            expected ==
                /\ Eval(p.next, e, Pristine(Len(slots))).r
                /\ \E d \in Visited(e) :
                      Eval(p.func.next, d, [Pristine(Len(slots)) EXCEPT ![p.slot] = e]).r
        IN  /\ lastRes = (expected /\ (input.entry = "compile" => IsTag(e)))
            /\ lastRes = Eval(out.q, e, Pristine(Len(slots))).r
            /\ (input.token = HasGtSpan /\ out.ctx = NoCtx) => (lastRes = (e \in {2, 5}))

\* C5 witness: a :has with a slot and a continuation that is not trueFunc
\* accepted the element it was evaluated on, which is now in its slot.
C5_Witness ==
    /\ WasEvaluated /\ out.inner.k = "has" /\ out.inner.slot # 0
    /\ out.inner.next.k # "trueFunc"
    /\ lastRes /\ slots[out.inner.slot] = lastElem

\* the last node of a group that sorting leaves as it is
LastNode(g) == g[Len(g)]

\* C6: :matches(S) under continuation next accepts e iff some group of S
\* accepts e and next holds for e itself, also when a group of S holds a
\* traversal.  Stated for a :matches that follows a combinator, where next is
\* the chain to its left whatever the sorting pass does.
C6_MatchesTestsNextOnElement ==
    (WasEvaluated /\ input.entry = "compileToken" /\ out.ctx = NoCtx
        /\ Len(input.token) = 1 /\ Len(input.token[1]) >= 2
        /\ SortRules(input.token[1]) = input.token[1]
        /\ ~IsTraversal(input.token[1][1])
        /\ IsTraversal(input.token[1][Len(input.token[1]) - 1])
        /\ LastNode(input.token[1]).type = "pseudo"
        /\ LastNode(input.token[1]).name = "matches") =>
        LET g == input.token[1]
            S == LastNode(g).data
            next == CompileToken(<<SubSeq(g, 1, Len(g) - 1)>>, InputOpts, NoCtx, St0)
        IN  lastRes = (/\ Eval(next.q, lastElem, Pristine(next.st.ns)).r
                       /\ \E i \in NonEmpty(S) : lastElem \in AloneSet(S[i]))

LeadsWithTraversal(g) ==
    Len(g) > 0 /\ g[1].type \in {"child", "sibling", "adjacent"}

\* C7 as stated: absolutize leaves a group that begins with a traversal other
\* than descendant unchanged.
C7_LeadingTraversalUnchanged ==
    phase = "compiled" =>
        \A i \in 1..Len(out.sorted) :
            LeadsWithTraversal(out.sorted[i]) => out.abs[i] = out.sorted[i]

\* C7 amended: absolutize prepends exactly the :scope node, and no descendant
\* marker, to a group that begins with a traversal other than descendant,
\* with or without a context, and keeps the group's nodes.
C7_LeadingTraversalGetsScope ==
    phase = "compiled" =>
        \A i \in 1..Len(out.sorted) :
            LeadsWithTraversal(out.sorted[i]) => out.abs[i] = <<SCOPE_TOKEN>> \o out.sorted[i]

\* C7 witness: a context with anchored elements was supplied and a group
\* beginning with a child traversal got :scope alone prepended.
C7_Witness ==
    /\ phase = "compiled" /\ HasContext(out.ctx)
    /\ \E i \in 1..Len(out.sorted) :
          /\ LeadsWithTraversal(out.sorted[i])
          /\ out.abs[i] = <<SCOPE_TOKEN>> \o out.sorted[i]

\* the context the caller supplied: options.context, else the argument
Supplied == IF input.optContext.kind # "undef" THEN input.optContext ELSE input.context

ScopeThenDescendant(g) ==
    Len(g) >= 2 /\ IsScope(g[1]) /\ g[2].type = "descendant"

GotFlexible(g) == Len(g) >= 2 /\ g[2].type = "_flexibleDescendant"

\* C8: a context supplied as a sequence, by argument or by options.context,
\* reaches absolutize and compileRules unnested and makes every group that
\* begins :scope, descendant use the flexible descendant; a single element
\* or no context makes no group use it.
C8_ArrayContextFlexible ==
    Compiled =>
        /\ Supplied.kind = "array" =>
              /\ out.ctx = Supplied
              /\ \A i \in 1..Len(out.abs) :
                    ScopeThenDescendant(out.abs[i]) => GotFlexible(out.tok[i])
        /\ Supplied.kind \in {"elem", "undef"} =>
              \A i \in 1..Len(out.tok) : ~GotFlexible(out.tok[i])

\* what a compileToken call knows of its context argument: "arr" an array,
\* "elem" a value that is no array, "undef" none
KindOf(c) == IF CtxIsArray(c) THEN "arr" ELSE IF c.kind = "elem" THEN "elem" ELSE "undef"

RECURSIVE GroupKept(_, _, _, _, _)
RECURSIVE NodeKept(_, _, _, _)

\* final is orig sorted, behind nothing, :scope, or :scope and the descendant
\* marker; with flex, the second node may be the flexible descendant in place
\* of a descendant that follows :scope when the call's context argument is an
\* array (isArr); pk is the kind of the context the call hands to its rules
GroupKept(final, orig, flex, isArr, pk) ==
    \E prefix \in {<<>>, <<SCOPE_TOKEN>>, <<SCOPE_TOKEN, DESCENDANT_TOKEN>>} :
        LET body == prefix \o SortRules(orig)
        IN  /\ Len(final) = Len(body)
            /\ \A j \in 1..Len(body) :
                  \/ /\ flex /\ isArr /\ j = 2
                     /\ IsScope(body[1]) /\ body[2].type = "descendant"
                     /\ final[2] = FLEXIBLE_DESCENDANT_TOKEN
                  \/ NodeKept(final[j], body[j], flex, pk)

\* the node is the same node, its nested groups kept in turn
NodeKept(f, o, flex, pk) ==
    /\ f.type = o.type
    /\ f.name = o.name
    /\ Len(f.data) = Len(o.data)
    /\ LET slot == \E i \in 1..Len(o.data) : \E j \in 1..Len(o.data[i]) :
                      o.data[i][j].type \in {"descendant", "child", "sibling", "adjacent"}
           isArr == IF o.name = "has" THEN slot ELSE pk = "arr"
           npk == IF o.name = "has" THEN (IF slot THEN "arr" ELSE "undef")
                  ELSE IF pk = "elem" THEN "arr" ELSE pk
       IN  \A i \in 1..Len(o.data) :
              \/ f.data[i] = o.data[i]
              \/ GroupKept(f.data[i], o.data[i], flex, isArr, npk)

TokenKept(flex) ==
    /\ Len(out.tok) = Len(input.token)
    /\ \A i \in 1..Len(out.tok) :
          GroupKept(out.tok[i], input.token[i], flex, out.isArrayContext, KindOf(out.ctx))

\* C9 as stated: compilation changes a group only by sorting it and by
\* prepending :scope and the descendant marker; no node is replaced or removed.
C9_OnlySortAndPrepend == phase = "compiled" => TokenKept(FALSE)

\* C9 amended: besides sorting and prepending, compileToken replaces the
\* second node of a group by the flexible descendant when the first node is
\* :scope, the second a plain descendant and the call's context argument an
\* array; no node is removed and no other node is replaced.
C9_SortPrependOrFlexible == phase = "compiled" => TokenKept(TRUE)

\* C9 witness: under an array context the descendant the selector wrote after
\* :scope was replaced by the flexible descendant.
C9_Witness ==
    /\ Compiled /\ out.isArrayContext
    /\ \E i \in 1..Len(out.tok) :
          /\ ScopeThenDescendant(input.token[i])
          /\ GotFlexible(out.tok[i])
    /\ TokenKept(TRUE)

\* C10: the flag read from a predicate compileToken returned equals the value
\* computed for that predicate's own groups, whatever was compiled since.
C10_FlagStaysOwn ==
    \A h \in 1..Len(preds) : objFlag[preds[h].obj] = preds[h].expected

====
